---------------------------- MODULE Spec2Model ----------------------------
(***************************************************************************)
(* Model of push_py.py: a polling daemon that stages, commits (with an     *)
(* auto-incremented version in the commit message), pushes and verifies a  *)
(* git working tree, with retry bookkeeping in its main loop.              *)
(*                                                                         *)
(* Python strings are modelled as sequences of one-character strings, so   *)
(* that strip, split, slicing, int() and formatting are computed the way   *)
(* the code computes them.                                                 *)
(***************************************************************************)
EXTENDS Integers, Sequences, FiniteSets, TLC

(***************************************************************************)
(* Bounds of the model (not program constants).                            *)
(***************************************************************************)
\* the main loop is followed for at most this many checks
MaxChecks == 4

\* the version functions are applied to versions with a major of at most
\* MaxMajor, in runs of at most MaxCalls calls
MaxMajor == 2

MaxCalls == 3

\* the log functions are called at most MaxLogCalls times in a run, with
\* messages of at most MaxMessageLines lines
MaxLogCalls == 2

MaxMessageLines == 3

(***************************************************************************)
(* CONFIG and the literals of the code.                                    *)
(***************************************************************************)
initial_interval == 60

normal_interval == 300

initial_checks == 3

max_retries == 3

max_log_lines == 2000

log_rotation_size == 1000

\* range(interval, 0, -10) and time.sleep(10) in the wait loop
wait_step == 10

\* time.sleep(1) for the slices with i <= 10
short_sleep == 1

\* patch and minor roll over when they are not < 99
rollover == 99

(***************************************************************************)
(* Python string primitives.                                               *)
(***************************************************************************)
Whitespace == {" ", "\n", "\t"}

DigitChars == <<"0", "1", "2", "3", "4", "5", "6", "7", "8", "9">>

IsDigit(c) == \E k \in 1..10 : DigitChars[k] = c

DigitVal(c) == (CHOOSE k \in 1..10 : DigitChars[k] = c) - 1

RECURSIVE LStrip(_)
\* str.lstrip(): drop leading whitespace
LStrip(s) ==
    IF s = <<>> THEN <<>>
    ELSE IF Head(s) \in Whitespace THEN LStrip(Tail(s)) ELSE s

RECURSIVE RStrip(_)
\* str.rstrip(): drop trailing whitespace
RStrip(s) ==
    IF s = <<>> THEN <<>>
    ELSE IF s[Len(s)] \in Whitespace THEN RStrip(SubSeq(s, 1, Len(s) - 1)) ELSE s

\* str.strip()
Strip(s) == RStrip(LStrip(s))

RECURSIVE SplitFrom(_, _, _)
\* str.split(sep) for a one-character sep: cur is the piece being read
SplitFrom(s, sep, cur) ==
    IF s = <<>> THEN <<cur>>
    ELSE IF Head(s) = sep THEN <<cur>> \o SplitFrom(Tail(s), sep, <<>>)
    ELSE SplitFrom(Tail(s), sep, Append(cur, Head(s)))

Split(s, sep) == SplitFrom(s, sep, <<>>)

\* s[:n]
Prefix(s, n) == SubSeq(s, 1, IF Len(s) < n THEN Len(s) ELSE n)

\* s[n:]  (n counted from 0, as in Python)
Suffix(s, n) == IF Len(s) <= n THEN <<>> ELSE SubSeq(s, n + 1, Len(s))

RECURSIVE NatOfDigits(_, _)
\* the value of a non-empty sequence of digits, acc the value read so far
NatOfDigits(s, acc) ==
    IF s = <<>> THEN acc ELSE NatOfDigits(Tail(s), 10 * acc + DigitVal(Head(s)))

\* whether int(s) succeeds: surrounding whitespace, an optional sign, digits
\* (the alphabet of the model has no "_", which int() also admits between digits)
IntParses(s) ==
    LET t == Strip(s)
        u == IF t # <<>> /\ Head(t) \in {"+", "-"} THEN Tail(t) ELSE t
    IN  u # <<>> /\ \A k \in 1..Len(u) : IsDigit(u[k])

\* int(s), for IntParses(s)
PyInt(s) ==
    LET t == Strip(s)
        neg == t # <<>> /\ Head(t) = "-"
        u == IF t # <<>> /\ Head(t) \in {"+", "-"} THEN Tail(t) ELSE t
    IN  IF neg THEN 0 - NatOfDigits(u, 0) ELSE NatOfDigits(u, 0)

RECURSIVE DigitsOfNat(_)
\* the decimal digits of a natural number
DigitsOfNat(n) ==
    IF n < 10 THEN <<DigitChars[n + 1]>>
    ELSE Append(DigitsOfNat(n \div 10), DigitChars[(n % 10) + 1])

\* str(n) of an integer, as the f-string formats it
PyStr(n) == IF n < 0 THEN <<"-">> \o DigitsOfNat(0 - n) ELSE DigitsOfNat(n)

(***************************************************************************)
(* Version management.                                                     *)
(***************************************************************************)
\* CURRENT_VERSION = "1.1.3"
DefaultVersion == <<"1", ".", "1", ".", "3">>

\* the literal "1.1.4" that increment_version returns for a malformed version
FallbackVersion == <<"1", ".", "1", ".", "4">>

\* the version file: whether it exists, and its text
NoFile == [exists |-> FALSE, content |-> <<>>]

FileWith(text) == [exists |-> TRUE, content |-> text]

\* load_version(): the file's stripped text when it exists, can be read and is
\* not empty; the default otherwise
load_version(file, read_ok) ==
    IF file.exists
    THEN IF read_ok
         THEN LET version == Strip(file.content)
              IN  IF version # <<>> THEN version ELSE DefaultVersion
         ELSE DefaultVersion
    ELSE DefaultVersion

\* a save that leaves the last character of the version unwritten
save_version_Partial(file, version, write_ok) ==
    IF write_ok THEN FileWith(SubSeq(version, 1, Len(version) - 1)) ELSE file

\* save_version(version): the file after the call; a failed write is caught,
\* reported and leaves the file as it was
save_version(file, version, write_ok) ==
    IF write_ok THEN FileWith(version) ELSE file

\* f"{major}.{minor}.{patch}"
FormatVersion(major, minor, patch) ==
    PyStr(major) \o <<".">> \o PyStr(minor) \o <<".">> \o PyStr(patch)

\* an increment whose patch rolls over one number late (`<=` for `<`)
increment_version_LateRollover(current_version) ==
    LET parts == Split(current_version, ".")
    IN  IF Len(parts) # 3 THEN FallbackVersion
        ELSE IF \E k \in 1..3 : ~IntParses(parts[k]) THEN FallbackVersion
        ELSE LET major == PyInt(parts[1])
                 minor == PyInt(parts[2])
                 patch == PyInt(parts[3])
             IN  IF patch <= rollover THEN FormatVersion(major, minor, patch + 1)
                 ELSE IF minor < rollover THEN FormatVersion(major, minor + 1, 0)
                 ELSE FormatVersion(major + 1, 0, 0)

\* an increment that hands back a version with the wrong number of parts
\* instead of the fallback
increment_version_KeepsMalformed(current_version) ==
    LET parts == Split(current_version, ".")
    IN  IF Len(parts) # 3 THEN current_version
        ELSE IF \E k \in 1..3 : ~IntParses(parts[k]) THEN FallbackVersion
        ELSE LET major == PyInt(parts[1])
                 minor == PyInt(parts[2])
                 patch == PyInt(parts[3])
             IN  IF patch < rollover THEN FormatVersion(major, minor, patch + 1)
                 ELSE IF minor < rollover THEN FormatVersion(major, minor + 1, 0)
                 ELSE FormatVersion(major + 1, 0, 0)

\* an increment that wraps around to major.0.0 without advancing the major
increment_version_WrapsAround(current_version) ==
    LET parts == Split(current_version, ".")
    IN  IF Len(parts) # 3 THEN FallbackVersion
        ELSE IF \E k \in 1..3 : ~IntParses(parts[k]) THEN FallbackVersion
        ELSE LET major == PyInt(parts[1])
                 minor == PyInt(parts[2])
                 patch == PyInt(parts[3])
             IN  IF patch < rollover THEN FormatVersion(major, minor, patch + 1)
                 ELSE IF minor < rollover THEN FormatVersion(major, minor + 1, 0)
                 ELSE FormatVersion(major, 0, 0)

\* increment_version(current_version)
increment_version(current_version) ==
    LET parts == Split(current_version, ".")
    IN  IF Len(parts) # 3 THEN FallbackVersion
        ELSE IF \E k \in 1..3 : ~IntParses(parts[k]) THEN FallbackVersion
        ELSE LET major == PyInt(parts[1])
                 minor == PyInt(parts[2])
                 patch == PyInt(parts[3])
             IN  IF patch < rollover THEN FormatVersion(major, minor, patch + 1)
                 ELSE IF minor < rollover THEN FormatVersion(major, minor + 1, 0)
                 ELSE FormatVersion(major + 1, 0, 0)


(***************************************************************************)
(* The change summariser.                                                  *)
(***************************************************************************)
RECURSIVE Classify(_, _)
\* the loop of get_django_changes over the split status lines; acc holds the
\* added, modified and deleted lists built so far
Classify(changes, acc) ==
    IF changes = <<>> THEN acc
    ELSE LET change == Head(changes)
             status == Strip(Prefix(change, 2))
             file_path == Suffix(change, 3)
             next ==
                 IF Strip(change) = <<>> THEN acc
                 ELSE IF status = <<"A">> \/ status = <<"?", "?">>
                      THEN [acc EXCEPT !.added = Append(@, file_path)]
                 ELSE IF status = <<"M">>
                      THEN [acc EXCEPT !.modified = Append(@, file_path)]
                 ELSE IF status = <<"D">>
                      THEN [acc EXCEPT !.deleted = Append(@, file_path)]
                 ELSE acc
         IN  Classify(Tail(changes), next)

\* get_django_changes(): kind "none" stands for the message "No changes found",
\* "digest" for the "Django project changes:" message built from the three
\* lists, "error" for "Error checking changes: ..." (the status call raised)
get_django_changes(stdout, status_raises) ==
    IF status_raises
    THEN [kind |-> "error", added |-> <<>>, modified |-> <<>>, deleted |-> <<>>]
    ELSE IF Strip(stdout) = <<>>
    THEN [kind |-> "none", added |-> <<>>, modified |-> <<>>, deleted |-> <<>>]
    ELSE Classify(Split(Strip(stdout), "\n"),
                  [kind |-> "digest", added |-> <<>>, modified |-> <<>>,
                   deleted |-> <<>>])

\* the ChangeSet is empty: no entry is classified as added, modified or deleted
ChangeSetEmpty(changes) ==
    changes.added = <<>> /\ changes.modified = <<>> /\ changes.deleted = <<>>

(***************************************************************************)
(* Status output of git: lines "XY path", each ended by a line feed.       *)
(***************************************************************************)
RECURSIVE JoinLines(_)
JoinLines(lines) ==
    IF lines = <<>> THEN <<>>
    ELSE Head(lines) \o <<"\n">> \o JoinLines(Tail(lines))

\* what `git status --porcelain` may print at a check: nothing; a file
\* modified in the working tree (its code opens with a space) and an untracked
\* file; only a file whose code "MM" the summariser ignores
StatusOutputs ==
    { <<>>,
      JoinLines(<< <<" ", "M", " ", "a", "b">>, <<"?", "?", " ", "c">> >>),
      JoinLines(<< <<"M", "M", " ", "c">> >>) }

(***************************************************************************)
(* Push verification.                                                      *)
(***************************************************************************)
\* what `git ls-remote origin refs/heads/<branch>` shows of the remote tip
RemoteStates == {"equal", "different", "absent", "error"}

\* a verification that takes a missing remote tip for a mismatch
verify_git_push_AbsentFails(local_ok, remote, msg_ok) ==
    local_ok /\ msg_ok /\ remote = "equal"

\* verify_git_push(): the first component of its result.  local_ok: rev-parse
\* HEAD succeeded; remote: the remote tip against the local HEAD, "absent" for
\* empty output and "error" for a failed query (both leave remote_commit None);
\* msg_ok: `git log --oneline -1` succeeded
verify_git_push(local_ok, remote, msg_ok) ==
    IF ~local_ok THEN FALSE
    ELSE IF ~msg_ok THEN FALSE
    ELSE IF remote = "equal" THEN TRUE
    ELSE IF remote = "different" THEN FALSE
    ELSE TRUE

(***************************************************************************)
(* The pipeline: run_git_commands.                                         *)
(***************************************************************************)
\* the text "Version " that opens the commit message
VersionPrefix == <<"V", "e", "r", "s", "i", "o", "n", " ">>

\* commit_msg = f"Version {new_version} - {current_time}\n{changes_message}",
\* up to the timestamp (the timestamp and the digest are left out)
CommitMessage(new_version) == VersionPrefix \o new_version \o <<" ", "-", " ">>

\* whether text s starts with text p
StartsWith(s, p) == Len(p) <= Len(s) /\ SubSeq(s, 1, Len(p)) = p

\* whether the commit message embeds "Version <v>" followed by the separator
EmbedsVersion(msg, v) == StartsWith(msg, VersionPrefix \o v \o <<" ">>)

\* the answers of the environment to one check with the probe returning
\* True: the status output, the exit codes of add, commit and push (0 or 1),
\* whether rev-parse --short HEAD succeeds, whether the version file and the
\* error record can be written, whether the log can be written during the
\* check, and the answers read by the verification
Env(status, add_rc, commit_rc, hash_ok, push_rc, save_ok, errfile_ok, log_ok, verify) ==
    [stdout |-> status[1], status_raises |-> status[2], add_rc |-> add_rc,
     commit_rc |-> commit_rc, hash_ok |-> hash_ok, push_rc |-> push_rc,
     save_ok |-> save_ok, errfile_ok |-> errfile_ok, log_ok |-> log_ok,
     local_ok |-> verify[1], remote |-> verify[2], msg_ok |-> verify[3]]

\* the status answers after which the pipeline returns at once, and the others
\* (a status call that raises prints nothing)
QuietStatus == { <<so, FALSE>> : so \in { x \in StatusOutputs : Strip(x) = <<>> } }

ChangedStatus ==
    { <<so, FALSE>> : so \in { x \in StatusOutputs : Strip(x) # <<>> } }
        \cup { <<(<<>>), TRUE>> }

\* the answers read by verify_git_push: after a failed rev-parse HEAD nothing
\* else is read, and when `git log` fails the answer of the remote, read
\* before it, decides nothing
VerifyAnswers ==
    { <<FALSE, "equal", TRUE>>, <<TRUE, "equal", FALSE>> }
        \cup { <<TRUE, remote, TRUE>> : remote \in RemoteStates }

Verified == <<TRUE, "equal", TRUE>>

\* one env per run of the pipeline: the answers a run never asks for are fixed
Envs ==
    { Env(st, 0, 0, TRUE, 0, TRUE, TRUE, log_ok, Verified) :
        st \in QuietStatus, log_ok \in BOOLEAN }
    \cup
    { Env(st, 1, 0, TRUE, 0, TRUE, errfile_ok, log_ok, Verified) :
        st \in ChangedStatus, errfile_ok \in BOOLEAN, log_ok \in BOOLEAN }
    \cup
    { Env(st, 0, 1, TRUE, 0, save_ok, errfile_ok, log_ok, Verified) :
        st \in ChangedStatus, save_ok \in BOOLEAN, errfile_ok \in BOOLEAN,
        log_ok \in BOOLEAN }
    \cup
    { Env(st, 0, 0, FALSE, 0, save_ok, errfile_ok, log_ok, Verified) :
        st \in ChangedStatus, save_ok \in BOOLEAN, errfile_ok \in BOOLEAN,
        log_ok \in BOOLEAN }
    \cup
    { Env(st, 0, 0, TRUE, 1, save_ok, errfile_ok, log_ok, Verified) :
        st \in ChangedStatus, save_ok \in BOOLEAN, errfile_ok \in BOOLEAN,
        log_ok \in BOOLEAN }
    \cup
    { Env(st, 0, 0, TRUE, 0, save_ok, TRUE, log_ok, verify) :
        st \in ChangedStatus, save_ok \in BOOLEAN, log_ok \in BOOLEAN,
        verify \in VerifyAnswers }

\* an except branch that still verifies the push after a stage has failed
PipelineFailed_GoesOn(version, file, ops, msg, changes_empty, env) ==
    [outcome |-> IF env.errfile_ok THEN "Failure" ELSE "Raised",
     CURRENT_VERSION |-> version, version_file |-> file,
     ops |-> Append(ops, "verify"),
     commit_msg |-> msg, push_verified |-> FALSE, changes_empty |-> changes_empty,
     log |-> IF ~env.log_ok THEN <<>>
             ELSE IF env.errfile_ok THEN <<"FAILED", "ERROR">> ELSE <<"FAILED">>]

\* the except branch of run_git_commands: the failure is logged, then
\* save_error_to_file writes the error record outside any try, so a failed
\* write raises out of the handler and out of run_git_commands
PipelineFailed(version, file, ops, msg, changes_empty, env) ==
    [outcome |-> IF env.errfile_ok THEN "Failure" ELSE "Raised",
     CURRENT_VERSION |-> version, version_file |-> file, ops |-> ops,
     commit_msg |-> msg, push_verified |-> FALSE, changes_empty |-> changes_empty,
     log |-> IF ~env.log_ok THEN <<>>
             ELSE IF env.errfile_ok THEN <<"FAILED", "ERROR">> ELSE <<"FAILED">>]

\* the version step of run_git_commands, before `git commit` runs:
\* new_version = increment_version(CURRENT_VERSION); CURRENT_VERSION =
\* new_version; save_version(CURRENT_VERSION)
AdvanceVersion(version, file, env) ==
    [CURRENT_VERSION |-> increment_version(version),
     version_file |-> save_version(file, increment_version(version), env.save_ok),
     commit_msg |-> CommitMessage(increment_version(version))]

\* a pipeline in which a push that could not be verified fails the run
PipelineSteps_UnverifiedFails(changes_message, adv, version, file, env) ==
    IF changes_message.kind = "none"
    THEN [outcome |-> "NoChanges", CURRENT_VERSION |-> version,
          version_file |-> file, ops |-> <<>>, commit_msg |-> <<>>,
          push_verified |-> FALSE, changes_empty |-> TRUE,
          log |-> IF env.log_ok THEN <<"STARTED">> ELSE <<>>]
    ELSE IF env.add_rc # 0
    THEN PipelineFailed(version, file, <<"add">>, <<>>,
                        changes_message.kind # "error" /\ ChangeSetEmpty(changes_message), env)
    ELSE IF env.commit_rc # 0 \/ ~env.hash_ok
    THEN PipelineFailed(adv.CURRENT_VERSION, adv.version_file, <<"add", "commit">>,
                        adv.commit_msg,
                        changes_message.kind # "error" /\ ChangeSetEmpty(changes_message), env)
    ELSE IF env.push_rc # 0
    THEN PipelineFailed(adv.CURRENT_VERSION, adv.version_file,
                        <<"add", "commit", "push">>, adv.commit_msg,
                        changes_message.kind # "error" /\ ChangeSetEmpty(changes_message), env)
    ELSE IF ~verify_git_push(env.local_ok, env.remote, env.msg_ok)
    THEN PipelineFailed(adv.CURRENT_VERSION, adv.version_file,
                        <<"add", "commit", "push", "verify">>, adv.commit_msg,
                        changes_message.kind # "error" /\ ChangeSetEmpty(changes_message), env)
    ELSE [outcome |-> "Success", CURRENT_VERSION |-> adv.CURRENT_VERSION,
          version_file |-> adv.version_file,
          ops |-> <<"add", "commit", "push", "verify">>,
          commit_msg |-> adv.commit_msg,
          push_verified |-> TRUE,
          changes_empty |-> changes_message.kind # "error" /\ ChangeSetEmpty(changes_message),
          log |-> IF env.log_ok THEN <<"COMPLETED">> ELSE <<>>]

\* the try block of run_git_commands after get_django_changes returned
\* changes_message; adv is what the version step leaves when it is reached
PipelineSteps(changes_message, adv, version, file, env) ==
    IF changes_message.kind = "none"
    THEN [outcome |-> "NoChanges", CURRENT_VERSION |-> version,
          version_file |-> file, ops |-> <<>>, commit_msg |-> <<>>,
          push_verified |-> FALSE, changes_empty |-> TRUE,
          log |-> IF env.log_ok THEN <<"STARTED">> ELSE <<>>]
    ELSE IF env.add_rc # 0
    THEN PipelineFailed(version, file, <<"add">>, <<>>,
                        changes_message.kind # "error" /\ ChangeSetEmpty(changes_message), env)
    ELSE IF env.commit_rc # 0 \/ ~env.hash_ok
    THEN PipelineFailed(adv.CURRENT_VERSION, adv.version_file, <<"add", "commit">>,
                        adv.commit_msg,
                        changes_message.kind # "error" /\ ChangeSetEmpty(changes_message), env)
    ELSE IF env.push_rc # 0
    THEN PipelineFailed(adv.CURRENT_VERSION, adv.version_file,
                        <<"add", "commit", "push">>, adv.commit_msg,
                        changes_message.kind # "error" /\ ChangeSetEmpty(changes_message), env)
    ELSE [outcome |-> "Success", CURRENT_VERSION |-> adv.CURRENT_VERSION,
          version_file |-> adv.version_file,
          ops |-> <<"add", "commit", "push", "verify">>,
          commit_msg |-> adv.commit_msg,
          push_verified |-> verify_git_push(env.local_ok, env.remote, env.msg_ok),
          changes_empty |-> changes_message.kind # "error" /\ ChangeSetEmpty(changes_message),
          log |-> IF env.log_ok THEN <<"COMPLETED">> ELSE <<>>]

\* run_git_commands(): its result ("NoChanges" and "Success" return True,
\* "Failure" returns False, "Raised" raises), the global CURRENT_VERSION and
\* the version file it leaves, the external operations it invoked in order,
\* the commit message it passed, whether the ChangeSet it computed was empty
\* and the log entries it appended
run_git_commands(version, file, env) ==
    PipelineSteps(get_django_changes(env.stdout, env.status_raises),
                  AdvanceVersion(version, file, env), version, file, env)

(***************************************************************************)
(* The scheduler: the loop of main.                                        *)
(***************************************************************************)
\* an interval whose initial phase is one check short (`<` for `<=`)
get_interval_info_OneShort(n) == IF n < initial_checks THEN initial_interval ELSE normal_interval

\* get_interval_info(check_count): the interval
get_interval_info(n) == IF n <= initial_checks THEN initial_interval ELSE normal_interval

\* a bookkeeping whose ceiling is one failure late (`>` for `>=`)
RetryBookkeeping_OffByOne(success, failed, pending) ==
    IF ~success
    THEN IF failed + 1 > max_retries
         THEN [failed_operations_count |-> 0, pending_operations |-> FALSE]
         ELSE [failed_operations_count |-> failed + 1, pending_operations |-> TRUE]
    ELSE [failed_operations_count |-> 0, pending_operations |-> pending]

\* a bookkeeping that resets the count at the ceiling but still marks the
\* operations as pending
RetryBookkeeping_KeepPending(success, failed, pending) ==
    IF ~success
    THEN IF failed + 1 >= max_retries
         THEN [failed_operations_count |-> 0, pending_operations |-> TRUE]
         ELSE [failed_operations_count |-> failed + 1, pending_operations |-> TRUE]
    ELSE [failed_operations_count |-> 0, pending_operations |-> pending]

\* a bookkeeping that leaves the count at the ceiling instead of resetting it
RetryBookkeeping_StaysAtCeiling(success, failed, pending) ==
    IF ~success
    THEN IF failed + 1 >= max_retries
         THEN [failed_operations_count |-> max_retries, pending_operations |-> FALSE]
         ELSE [failed_operations_count |-> failed + 1, pending_operations |-> TRUE]
    ELSE [failed_operations_count |-> 0, pending_operations |-> pending]

\* the bookkeeping of main after run_git_commands returned `success`
RetryBookkeeping(success, failed, pending) ==
    IF ~success
    THEN IF failed + 1 >= max_retries
         THEN [failed_operations_count |-> 0, pending_operations |-> FALSE]
         ELSE [failed_operations_count |-> failed + 1, pending_operations |-> TRUE]
    ELSE [failed_operations_count |-> 0, pending_operations |-> pending]

(***************************************************************************)
(* State.                                                                  *)
(***************************************************************************)
VARIABLES
    CURRENT_VERSION,          \* the global of that name
    version_file,             \* CONFIG['version_file'] on disk
    last_internet_status,     \* locals of main
    pending_operations,
    check_count,
    failed_operations_count,
    pc,                       \* where main is: "check", "wait", "error_wait",
                              \* "stopped", "uncaught_exception", "uncaught_interrupt"
    i,                        \* the variable of the wait loop
    slept,                    \* seconds slept since the last check
    log_tail,                 \* entries the last step appended to the log
    cycle,                    \* what the check that has just ended did (observation
                              \* only; NoCycle once the wait goes on)
    last_outcome,             \* how the last check ended: "None" before the first,
                              \* "Offline", or the outcome of the pipeline (observation only)
    consecutive_failures,     \* Failure outcomes since the last Success or NoChanges
                              \* (observation only)
    push_failed_prev          \* the last pipeline run ended in a failed push (observation only)

vars ==
    <<CURRENT_VERSION, version_file, last_internet_status, pending_operations,
      check_count, failed_operations_count, pc, i, slept, log_tail, cycle,
      last_outcome, consecutive_failures, push_failed_prev>>

\* the version files the daemon may find when it starts
InitialVersionFiles ==
    { NoFile,
      FileWith(<<"1", ".", "9", "9", ".", "9", "8", "\n">>),
      FileWith(<<"x", ".", "y", ".", "z">>) }

\* before the first check there is no cycle to observe
NoCycle ==
    [ended |-> FALSE, has_internet |-> FALSE, invoked |-> FALSE,
     outcome |-> "None", ops |-> <<>>,
     commit_msg |-> <<>>, push_verified |-> FALSE, changes_empty |-> FALSE,
     add_rc |-> 0, commit_rc |-> 0, push_rc |-> 0,
     save_ok |-> TRUE, errfile_ok |-> TRUE, log_ok |-> TRUE,
     local_ok |-> TRUE, remote |-> "equal", msg_ok |-> TRUE,
     handled |-> FALSE, handler_errfile_ok |-> TRUE,
     start_version |-> <<>>, start_file |-> NoFile, start_failed |-> 0,
     start_pending |-> FALSE, start_last_internet |-> FALSE,
     start_push_failed |-> FALSE]

\* main() up to "Starting main loop...": the version is loaded and the locals
\* of the loop are initialised
Init ==
    /\ version_file \in InitialVersionFiles
    /\ \E read_ok \in BOOLEAN : CURRENT_VERSION = load_version(version_file, read_ok)
    /\ last_internet_status = FALSE
    /\ pending_operations = FALSE
    /\ check_count = 0
    /\ failed_operations_count = 0
    /\ pc = "check"
    /\ i = 0
    /\ slept = 0
    /\ log_tail = <<>>
    /\ cycle = NoCycle
    /\ last_outcome = "None"
    /\ consecutive_failures = 0
    /\ push_failed_prev = FALSE

\* what a check observes before it runs
CycleStart(has_internet) ==
    [NoCycle EXCEPT !.ended = TRUE,
                    !.has_internet = has_internet,
                    !.start_version = CURRENT_VERSION,
                    !.start_file = version_file,
                    !.start_failed = failed_operations_count,
                    !.start_pending = pending_operations,
                    !.start_last_internet = last_internet_status,
                    !.start_push_failed = push_failed_prev]

\* what a check observes of a pipeline run r under env
CycleOf(r, env) ==
    [CycleStart(TRUE) EXCEPT !.invoked = TRUE,
                             !.outcome = r.outcome,
                             !.ops = r.ops,
                             !.commit_msg = r.commit_msg,
                             !.push_verified = r.push_verified,
                             !.changes_empty = r.changes_empty,
                             !.add_rc = env.add_rc,
                             !.commit_rc = env.commit_rc,
                             !.push_rc = env.push_rc,
                             !.save_ok = env.save_ok,
                             !.errfile_ok = env.errfile_ok,
                             !.log_ok = env.log_ok,
                             !.local_ok = env.local_ok,
                             !.remote = env.remote,
                             !.msg_ok = env.msg_ok]

\* `if not last_internet_status and pending_operations: pending_operations = False`
PendingOnConnect(last, pending) == IF ~last /\ pending THEN FALSE ELSE pending

\* the rest of an iteration after run_git_commands returned r: the
\* bookkeeping, then the wait loop is entered
Returned(r, env) ==
    /\ r.outcome # "Raised"
    /\ check_count' = check_count + 1
    /\ CURRENT_VERSION' = r.CURRENT_VERSION
    /\ version_file' = r.version_file
    /\ failed_operations_count' =
           RetryBookkeeping(r.outcome # "Failure", failed_operations_count,
               PendingOnConnect(last_internet_status, pending_operations)
           ).failed_operations_count
    /\ pending_operations' =
           RetryBookkeeping(r.outcome # "Failure", failed_operations_count,
               PendingOnConnect(last_internet_status, pending_operations)
           ).pending_operations
    /\ last_internet_status' = TRUE
    /\ pc' = "wait"
    /\ i' = get_interval_info(check_count + 1)
    /\ slept' = 0
    /\ log_tail' = r.log
    /\ cycle' = CycleOf(r, env)
    /\ last_outcome' = r.outcome
    /\ consecutive_failures' =
           IF r.outcome = "Failure" THEN consecutive_failures + 1 ELSE 0
    /\ push_failed_prev' = (r.outcome = "Failure" /\ env.push_rc # 0)

\* one iteration of the loop with the probe returning True and
\* run_git_commands returning
CheckConnected ==
    /\ pc = "check"
    /\ check_count < MaxChecks
    /\ \E env \in Envs :
         Returned(run_git_commands(CURRENT_VERSION, version_file, env), env)

\* the rest of an iteration after run_git_commands raised: `except Exception`
\* of main logs the error and calls save_error_to_file, whose own failure
\* leaves main; otherwise the interval is slept
Raised(r, env, handler_errfile_ok) ==
    /\ r.outcome = "Raised"
    /\ check_count' = check_count + 1
    /\ CURRENT_VERSION' = r.CURRENT_VERSION
    /\ version_file' = r.version_file
    /\ pending_operations' = PendingOnConnect(last_internet_status, pending_operations)
    /\ pc' = IF handler_errfile_ok THEN "error_wait" ELSE "uncaught_exception"
    /\ i' = 0
    /\ slept' = 0
    /\ log_tail' = r.log \o (IF ~env.log_ok THEN <<>>
                             ELSE IF handler_errfile_ok THEN <<"UNEXPECTED", "ERROR">>
                             ELSE <<"UNEXPECTED">>)
    /\ cycle' = [CycleOf(r, env) EXCEPT !.handled = TRUE,
                                       !.handler_errfile_ok = handler_errfile_ok]
    /\ last_outcome' = r.outcome
    /\ push_failed_prev' = (env.push_rc # 0)
    /\ UNCHANGED <<failed_operations_count, last_internet_status, consecutive_failures>>

\* the envs under which the error record of the pipeline cannot be written
RaisingEnvs == { env \in Envs : ~env.errfile_ok }

\* one iteration of the loop with the probe returning True and
\* run_git_commands raising
CheckRaised ==
    /\ pc = "check"
    /\ check_count < MaxChecks
    /\ \E env \in RaisingEnvs, handler_errfile_ok \in BOOLEAN :
         Raised(run_git_commands(CURRENT_VERSION, version_file, env), env,
                handler_errfile_ok)

\* an iteration with the probe returning False that nevertheless advances and
\* saves the version, as if the pipeline had been entered
CheckDisconnected_RunsPipeline ==
    /\ pc = "check"
    /\ check_count < MaxChecks
    /\ \E log_ok \in BOOLEAN :
         /\ check_count' = check_count + 1
         /\ CURRENT_VERSION' = increment_version(CURRENT_VERSION)
         /\ version_file' = save_version(version_file, increment_version(CURRENT_VERSION), TRUE)
         /\ pending_operations' = IF last_internet_status THEN TRUE ELSE pending_operations
         /\ last_internet_status' = FALSE
         /\ pc' = "wait"
         /\ i' = get_interval_info(check_count + 1)
         /\ slept' = 0
         /\ log_tail' = IF log_ok THEN <<"NO INTERNET">> ELSE <<>>
         /\ cycle' = [CycleStart(FALSE) EXCEPT !.log_ok = log_ok]
         /\ last_outcome' = "Offline"
         /\ UNCHANGED <<failed_operations_count, consecutive_failures, push_failed_prev>>

\* an iteration with the probe returning False that forgets the failures
\* counted so far
CheckDisconnected_ResetsCount ==
    /\ pc = "check"
    /\ check_count < MaxChecks
    /\ \E log_ok \in BOOLEAN :
         /\ check_count' = check_count + 1
         /\ failed_operations_count' = 0
         /\ pending_operations' = IF last_internet_status THEN TRUE ELSE pending_operations
         /\ last_internet_status' = FALSE
         /\ pc' = "wait"
         /\ i' = get_interval_info(check_count + 1)
         /\ slept' = 0
         /\ log_tail' = IF log_ok THEN <<"NO INTERNET">> ELSE <<>>
         /\ cycle' = [CycleStart(FALSE) EXCEPT !.log_ok = log_ok]
         /\ last_outcome' = "Offline"
         /\ UNCHANGED <<CURRENT_VERSION, version_file, consecutive_failures,
                        push_failed_prev>>

\* one iteration of the loop with the probe returning False
CheckDisconnected ==
    /\ pc = "check"
    /\ check_count < MaxChecks
    /\ \E log_ok \in BOOLEAN :
         /\ check_count' = check_count + 1
         /\ pending_operations' = IF last_internet_status THEN TRUE ELSE pending_operations
         /\ last_internet_status' = FALSE
         /\ pc' = "wait"
         /\ i' = get_interval_info(check_count + 1)
         /\ slept' = 0
         /\ log_tail' = IF log_ok THEN <<"NO INTERNET">> ELSE <<>>
         /\ cycle' = [CycleStart(FALSE) EXCEPT !.log_ok = log_ok]
         /\ last_outcome' = "Offline"
         /\ UNCHANGED <<CURRENT_VERSION, version_file, failed_operations_count,
                        consecutive_failures, push_failed_prev>>

\* one turn of `for i in range(interval, 0, -10)`: a slice is slept, and after
\* the last one the next iteration of the loop begins
WaitSlice ==
    /\ pc = "wait"
    /\ slept' = slept + (IF i <= wait_step THEN short_sleep ELSE wait_step)
    /\ i' = i - wait_step
    /\ pc' = IF i - wait_step > 0 THEN "wait" ELSE "check"
    /\ log_tail' = <<>>
    /\ cycle' = NoCycle
    /\ UNCHANGED <<CURRENT_VERSION, version_file, last_internet_status,
                   pending_operations, check_count, failed_operations_count,
                   last_outcome, consecutive_failures, push_failed_prev>>

\* time.sleep(interval) at the end of `except Exception`
ErrorWait ==
    /\ pc = "error_wait"
    /\ slept' = get_interval_info(check_count)
    /\ pc' = "check"
    /\ log_tail' = <<>>
    /\ cycle' = NoCycle
    /\ UNCHANGED <<CURRENT_VERSION, version_file, last_internet_status,
                   pending_operations, check_count, failed_operations_count,
                   i, last_outcome, consecutive_failures, push_failed_prev>>

\* KeyboardInterrupt during the wait loop: `except KeyboardInterrupt` logs the
\* shutdown entry and breaks
InterruptWait ==
    /\ pc = "wait"
    /\ \E log_ok \in BOOLEAN :
         log_tail' = IF log_ok THEN <<"STOPPED">> ELSE <<>>
    /\ pc' = "stopped"
    /\ cycle' = NoCycle
    /\ UNCHANGED <<CURRENT_VERSION, version_file, last_internet_status,
                   pending_operations, check_count, failed_operations_count,
                   i, slept, last_outcome, consecutive_failures, push_failed_prev>>

\* KeyboardInterrupt during the sleep of `except Exception`: raised inside a
\* handler, it is not caught by the sibling `except KeyboardInterrupt`
InterruptErrorWait ==
    /\ pc = "error_wait"
    /\ pc' = "uncaught_interrupt"
    /\ log_tail' = <<>>
    /\ cycle' = NoCycle
    /\ UNCHANGED <<CURRENT_VERSION, version_file, last_internet_status,
                   pending_operations, check_count, failed_operations_count,
                   i, slept, last_outcome, consecutive_failures, push_failed_prev>>

Next ==
    \/ CheckConnected
    \/ CheckRaised
    \/ CheckDisconnected
    \/ WaitSlice
    \/ ErrorWait
    \/ InterruptWait
    \/ InterruptErrorWait

Spec == Init /\ [][Next]_vars

(***************************************************************************)
(* Properties.  `cycle` holds what the check that has just ended did and   *)
(* the state it started from, so a property of "a cycle" is a predicate of *)
(* the state in which cycle.ended holds.                                   *)
(***************************************************************************)
\* the pipeline of the cycle invoked the external operation op
Invoked(op) == \E k \in DOMAIN cycle.ops : cycle.ops[k] = op

\* C1: in a cycle whose pipeline reaches the commit step and whose commit
\* exits non-zero, the cycle does not end as Success or NoChanges and the
\* version file is at the end what it was at the start; and the version
\* file is only ever changed by a cycle whose commit exited zero.
C1_FailedCommitKeepsVersionFile ==
    /\ (cycle.ended /\ Invoked("commit") /\ cycle.commit_rc # 0)
          => /\ cycle.outcome \notin {"Success", "NoChanges"}
             /\ version_file = cycle.start_file
    /\ (cycle.ended /\ version_file # cycle.start_file)
          => (Invoked("commit") /\ cycle.commit_rc = 0)

\* C2: once max_retries Failure outcomes have followed one another, the
\* scheduler has reset failed_operations_count to 0 and cleared
\* pending_operations, and they stay so through the wait until the next
\* iteration begins.
C2_RetryCeilingResets ==
    (last_outcome = "Failure" /\ consecutive_failures = max_retries
        /\ pc \in {"wait", "check"})
        => (failed_operations_count = 0 /\ pending_operations = FALSE)

\* C2 (witness): the next iteration is about to begin right after the
\* max_retries-th consecutive Failure.
C2_AtCeilingBeforeNextCheck ==
    /\ last_outcome = "Failure"
    /\ consecutive_failures = max_retries
    /\ pc = "check"
    /\ check_count = max_retries

\* C3: at the end of every cycle whose pipeline outcome is Success or
\* NoChanges, failed_operations_count is 0 and pending_operations is false,
\* whatever they were before the cycle.
C3_CleanCycleClearsPending ==
    (cycle.ended /\ cycle.invoked /\ cycle.outcome \in {"Success", "NoChanges"})
        => (failed_operations_count = 0 /\ pending_operations = FALSE)

\* C4: at the end of every cycle whose pipeline outcome is Failure, the count
\* was incremented by one; when the incremented value reaches max_retries the
\* count is 0 and pending_operations is false, otherwise the count keeps the
\* incremented value and pending_operations is true.
C4_FailureRule ==
    (cycle.ended /\ cycle.outcome = "Failure")
        => IF cycle.start_failed + 1 >= max_retries
           THEN failed_operations_count = 0 /\ pending_operations = FALSE
           ELSE /\ failed_operations_count = cycle.start_failed + 1
                /\ pending_operations = TRUE

\* C4 (witness): a Failure cycle that started one failure below the ceiling
\* has just ended.
C4_FailureAtCeiling ==
    /\ cycle.ended
    /\ cycle.outcome = "Failure"
    /\ cycle.start_failed = max_retries - 1
    /\ failed_operations_count = 0

\* C5: whenever the ChangeSet the pipeline computed is empty (nothing added,
\* modified or deleted, also when the status output only has lines with
\* unrecognised codes), the outcome is NoChanges, none of add, commit and
\* push was invoked, and CURRENT_VERSION and the version file are unchanged.
C5_EmptyChangeSetIsNoChanges ==
    (cycle.ended /\ cycle.invoked /\ cycle.changes_empty)
        => /\ cycle.outcome = "NoChanges"
           /\ cycle.ops = <<>>
           /\ CURRENT_VERSION = cycle.start_version
           /\ version_file = cycle.start_file

\* C6: in the first cycle after start, with connectivity up, in which add and
\* commit exit zero and push exits non-zero, the outcome is Failure, the
\* version file holds increment_version(start version) and
\* pending_operations is true at the end of the cycle.
C6_FirstCyclePushFailure ==
    (cycle.ended /\ check_count = 1 /\ cycle.has_internet
        /\ Invoked("push") /\ cycle.push_rc # 0)
        => /\ cycle.outcome = "Failure"
           /\ version_file = FileWith(increment_version(cycle.start_version))
           /\ pending_operations = TRUE

\* C7: in every cycle with a non-empty ChangeSet in which add, commit and push
\* all exit zero, the outcome is Success, the version file holds
\* increment_version(version at the start of the cycle) and the commit
\* message embeds that version as "Version <new version>".
C7_SuccessPersistsNewVersion ==
    (cycle.ended /\ cycle.invoked /\ ~cycle.changes_empty
        /\ Invoked("push") /\ cycle.push_rc = 0)
        => /\ cycle.outcome = "Success"
           /\ version_file = FileWith(increment_version(cycle.start_version))
           /\ EmbedsVersion(cycle.commit_msg, increment_version(cycle.start_version))

\* C8: the first cycle that runs the pipeline to its end after a cycle whose
\* push failed invokes push again, also when the working tree shows no new
\* change.
C8_PushRetriedAfterFailure ==
    (cycle.ended /\ cycle.invoked /\ cycle.start_push_failed
        /\ cycle.outcome \in {"Success", "NoChanges"})
        => Invoked("push")

\* C9: an unexpected error raised inside an iteration never ends the process,
\* whatever the log and error-record writes of its handling do: the handler
\* goes on to the wait, after which the next iteration begins.
C9_UnexpectedErrorIsSurvived ==
    /\ pc # "uncaught_exception"
    /\ (cycle.ended /\ cycle.handled) => pc = "error_wait"

\* C10: whenever add, commit or push exits non-zero, whatever the log and
\* error-record writes of the report do, run_git_commands returns a Failure
\* (it does not raise) and the scheduler applies its Failure rule to
\* failed_operations_count.
C10_StageErrorIsFailure ==
    (cycle.ended /\ cycle.invoked
        /\ \/ (Invoked("add") /\ cycle.add_rc # 0)
           \/ (Invoked("commit") /\ cycle.commit_rc # 0)
           \/ (Invoked("push") /\ cycle.push_rc # 0))
        => /\ cycle.outcome = "Failure"
           /\ failed_operations_count =
                  RetryBookkeeping(FALSE, cycle.start_failed, cycle.start_pending
                  ).failed_operations_count


\* C11: an interruption delivered during a wait between two checks, the
\* sliced wait as well as the sleep that follows an unexpected error, leaves
\* the loop through `except KeyboardInterrupt`, the shutdown path that writes
\* the final entry of the log.
C11_InterruptIsGraceful ==
    (pc \in {"stopped", "uncaught_interrupt"}) => pc = "stopped"


\* C12: in every iteration run_git_commands is invoked exactly when the probe
\* returned True, and then once (no external operation is invoked twice);
\* when the probe returned False no add, commit or push is invoked and
\* CURRENT_VERSION and the version file are unchanged, whatever
\* failed_operations_count and pending_operations were.
C12_PipelineRunsIffConnected ==
    cycle.ended =>
        /\ cycle.invoked <=> cycle.has_internet
        /\ \A j, k \in DOMAIN cycle.ops : cycle.ops[j] = cycle.ops[k] => j = k
        /\ ~cycle.has_internet =>
              /\ cycle.ops = <<>>
              /\ CURRENT_VERSION = cycle.start_version
              /\ version_file = cycle.start_file

\* C12 (witness): a check with the probe returning False has just ended; it
\* began with failures counted and operations pending.
C12_OfflineWithPendingRetry ==
    /\ cycle.ended
    /\ ~cycle.has_internet
    /\ ~cycle.invoked
    /\ cycle.start_failed > 0
    /\ cycle.start_pending


\* C13: a check with the probe returning False sets pending_operations to
\* true exactly when the check before it had the probe returning True; after
\* an offline check, or as the first check, it leaves pending_operations as
\* it was.
C13_OfflineSetsPendingAfterReachable ==
    [][(pc = "check" /\ pc' = "wait" /\ last_outcome' = "Offline")
          => pending_operations' =
                 (IF last_outcome \in {"None", "Offline"}
                  THEN pending_operations ELSE TRUE)]_vars


\* C14: check number n (counted from 1) waits the initial interval when
\* n <= initial_checks and the normal interval when n > initial_checks,
\* whatever the probe and the pipeline did in it: the sliced wait starts from
\* that interval, and so does the sleep after an unexpected error.
C14_IntervalIsStepFunction ==
    /\ (cycle.ended /\ pc = "wait")
          => i = (IF check_count <= initial_checks
                  THEN initial_interval ELSE normal_interval)
    /\ (pc = "check" /\ last_outcome = "Raised")
          => slept = (IF check_count <= initial_checks
                      THEN initial_interval ELSE normal_interval)

\* C14 (witness): the first check after the initial phase has just ended and
\* its wait starts from the normal interval, the check before it having been
\* the last to use the initial one.
C14_FirstNormalInterval ==
    /\ cycle.ended
    /\ pc = "wait"
    /\ check_count = initial_checks + 1
    /\ i = normal_interval
    /\ initial_interval # normal_interval


(***************************************************************************)
(* The version functions on their own: load_version, save_version and      *)
(* increment_version applied, in any order, to any version and any version *)
(* file.  CURRENT_VERSION and version_file are the global and the file;    *)
(* pc tells which function ran last and how it ended, last_outcome what pc *)
(* was before it, check_count counts the calls, and cycle.start_version    *)
(* and cycle.start_file hold the global and the file before the call.  The *)
(* other variables keep their initial values.                              *)
(***************************************************************************)
\* minors and patches around the rollover
EdgeNumbers == {0, 1, 3, 98, rollover, 100}

\* version strings that are no triple of non-negative integers
MalformedVersions ==
    { <<"x", ".", "y", ".", "z">>,
      <<>>,
      <<"1", ".", "1">>,
      <<"1", ".", "1", ".", "3", ".", "4">>,
      <<"1", ".", ".", "3">>,
      <<"1", ".", "x", ".", "3">>,
      <<"1", ".", "1", ".", "3", "a">>,
      <<"1", ".", "-", "5", ".", "9", "9">>,
      <<"1", ".", " ", "2", ".", "3">> }

\* the versions the functions are applied to
VersionInputs ==
    { FormatVersion(major, minor, patch) :
        major \in 0..MaxMajor, minor \in EdgeNumbers, patch \in EdgeNumbers }
        \cup MalformedVersions

\* the version files load_version may find: none, an empty one, one with
\* only whitespace, one written by save_version, one edited by hand (with a
\* newline at its end), one with no version in it
VersionFiles ==
    { NoFile,
      FileWith(<<>>),
      FileWith(<<" ", "\n">>),
      FileWith(<<"1", ".", "1", ".", "9", "9">>),
      FileWith(<<"2", ".", "0", ".", "0", "\n">>),
      FileWith(<<"x", ".", "y", ".", "z">>) }

VersionInit ==
    /\ CURRENT_VERSION \in VersionInputs
    /\ version_file \in VersionFiles
    /\ last_internet_status = FALSE
    /\ pending_operations = FALSE
    /\ check_count = 0
    /\ failed_operations_count = 0
    /\ pc = "version"
    /\ i = 0
    /\ slept = 0
    /\ log_tail = <<>>
    /\ cycle = NoCycle
    /\ last_outcome = "None"
    /\ consecutive_failures = 0
    /\ push_failed_prev = FALSE

\* what every call leaves alone, and what it records
VersionCall ==
    /\ check_count < MaxCalls
    /\ check_count' = check_count + 1
    /\ cycle' = CycleStart(FALSE)
    /\ last_outcome' = pc
    /\ UNCHANGED <<last_internet_status, pending_operations, failed_operations_count,
                   i, slept, log_tail, consecutive_failures, push_failed_prev>>

\* CURRENT_VERSION = increment_version(CURRENT_VERSION)
IncrementCall ==
    /\ VersionCall
    /\ CURRENT_VERSION' = increment_version(CURRENT_VERSION)
    /\ pc' = "incremented"
    /\ UNCHANGED version_file

\* save_version(CURRENT_VERSION), which returns True or False
SaveCall ==
    /\ VersionCall
    /\ \E write_ok \in BOOLEAN :
         /\ version_file' = save_version(version_file, CURRENT_VERSION, write_ok)
         /\ pc' = IF write_ok THEN "saved" ELSE "save_failed"
    /\ UNCHANGED CURRENT_VERSION

\* CURRENT_VERSION = load_version() in a process that has just started; a
\* file that does not exist is not read
LoadCall ==
    /\ VersionCall
    /\ \E read_ok \in (IF version_file.exists THEN BOOLEAN ELSE {TRUE}) :
         /\ CURRENT_VERSION' = load_version(version_file, read_ok)
         /\ pc' = IF read_ok THEN "loaded" ELSE "load_failed"
    /\ UNCHANGED version_file

VersionNext ==
    \/ IncrementCall
    \/ SaveCall
    \/ LoadCall

VersionSpec == VersionInit /\ [][VersionNext]_vars


\* C15: for every version major.minor.patch of three non-negative integers,
\* increment_version returns major.minor.(patch+1) if patch < 99, otherwise
\* major.(minor+1).0 if minor < 99, otherwise (major+1).0.0; so 1.1.3 gives
\* 1.1.4, 1.1.99 gives 1.2.0 and 1.99.99 gives 2.0.0.
C15_IncrementPolicy ==
    pc = "incremented" =>
        /\ \A major \in 0..MaxMajor, minor \in EdgeNumbers, patch \in EdgeNumbers :
              cycle.start_version = FormatVersion(major, minor, patch)
                 => CURRENT_VERSION =
                        (IF patch < 99 THEN FormatVersion(major, minor, patch + 1)
                         ELSE IF minor < 99 THEN FormatVersion(major, minor + 1, 0)
                         ELSE FormatVersion(major + 1, 0, 0))
        /\ cycle.start_version = <<"1", ".", "1", ".", "3">>
              => CURRENT_VERSION = <<"1", ".", "1", ".", "4">>
        /\ cycle.start_version = <<"1", ".", "1", ".", "9", "9">>
              => CURRENT_VERSION = <<"1", ".", "2", ".", "0">>
        /\ cycle.start_version = <<"1", ".", "9", "9", ".", "9", "9">>
              => CURRENT_VERSION = <<"2", ".", "0", ".", "0">>

\* C15 (witness): increment_version has just taken 1.99.99 to 2.0.0.
C15_MajorRollover ==
    /\ pc = "incremented"
    /\ cycle.start_version = <<"1", ".", "9", "9", ".", "9", "9">>
    /\ CURRENT_VERSION = <<"2", ".", "0", ".", "0">>


\* a part that reads as an integer: digits s[lo..hi], nothing but whitespace
\* after them, and before them whitespace with at most a sign right before
\* the first digit
Numeric(s) ==
    \E lo, hi \in 1..Len(s) :
        /\ lo <= hi
        /\ \A k \in lo..hi : s[k] \in {"0", "1", "2", "3", "4", "5", "6", "7", "8", "9"}
        /\ \A k \in (hi + 1)..Len(s) : s[k] \in {" ", "\n", "\t"}
        /\ \A k \in 1..(lo - 1) :
              \/ s[k] \in {" ", "\n", "\t"}
              \/ k = lo - 1 /\ s[k] \in {"+", "-"}

\* a version string that has not exactly three parts between dots, or a part
\* that is not numeric
Malformed(v) ==
    \/ Len(Split(v, ".")) # 3
    \/ \E k \in 1..Len(Split(v, ".")) : ~Numeric(Split(v, ".")[k])

WellFormed(v) ==
    /\ Len(Split(v, ".")) = 3
    /\ \A k \in 1..Len(Split(v, ".")) :
          /\ Split(v, ".")[k] # <<>>
          /\ \A n \in 1..Len(Split(v, ".")[k]) :
                Split(v, ".")[k][n] \in {"0", "1", "2", "3", "4", "5", "6", "7", "8", "9"}

\* C17: load_version returns the default 1.1.3 when the version file is
\* missing, when it is empty, and when its content (the whitespace around it
\* left aside) is no well-formed major.minor.patch triple.
C17_LoadFallsBackToDefault ==
    (pc \in {"loaded", "load_failed"}
        /\ \/ ~version_file.exists
           \/ version_file.content = <<>>
           \/ ~WellFormed(Strip(version_file.content)))
        => CURRENT_VERSION = <<"1", ".", "1", ".", "3">>


\* C18: for every well-formed version v, a load_version that follows a
\* save_version(v) that succeeded returns exactly v.
C18_RoundTrip ==
    (pc \in {"loaded", "load_failed"} /\ last_outcome = "saved"
        /\ WellFormed(cycle.start_version))
        => CURRENT_VERSION = cycle.start_version

\* C18 (amended): for every well-formed version v, a load_version that
\* follows a save_version(v) that succeeded returns exactly v when it can read
\* the version file, and the default 1.1.3 when reading the file fails.
C18_RoundTripWhenRead ==
    (last_outcome = "saved" /\ WellFormed(cycle.start_version))
        => /\ pc = "loaded" => (CURRENT_VERSION = cycle.start_version
                                /\ version_file = FileWith(CURRENT_VERSION))
           /\ pc = "load_failed" => CURRENT_VERSION = <<"1", ".", "1", ".", "3">>

\* C18 (witness): 2.0.0 was incremented to 2.0.1, saved and read back.
C18_SavedAndReadBack ==
    /\ pc = "loaded"
    /\ last_outcome = "saved"
    /\ check_count = MaxCalls
    /\ cycle.start_version = <<"2", ".", "0", ".", "1">>
    /\ CURRENT_VERSION = <<"2", ".", "0", ".", "1">>


(***************************************************************************)
(* The operation log on its own: rotate_log_file_if_needed and             *)
(* save_to_log_file applied to any log.  The log file is a sequence of     *)
(* lines, each a pair <<text, number>>: every write of the program ends    *)
(* with a newline, so the file is made of whole lines.  Here log_tail is   *)
(* the log file; pc tells which function ran last and how it ended,        *)
(* check_count counts the calls and cycle.start_file holds the log before  *)
(* the call.  The other variables keep their initial values.               *)
(***************************************************************************)
\* a log of n lines written earlier, numbered from the oldest
OldLines(n) == [k \in 1..n |-> <<"old", k>>]

\* lines[-n:]
LastLines(lines, n) ==
    IF n = 0 \/ Len(lines) <= n THEN lines
    ELSE SubSeq(lines, Len(lines) - n + 1, Len(lines))

\* the lines that writelines(rotation_marker) adds: the first string opens
\* with a newline and the last one ends with two
rotation_marker(total_lines, kept) ==
    << <<"", 0>>, <<"=", 80>>, <<"LOG FILE ROTATED", 0>>, <<"Time", 0>>,
       <<"Previous size", total_lines>>, <<"New size", kept>>,
       <<"Rotation threshold", max_log_lines>>, <<"=", 80>>, <<"", 0>> >>

\* an operation that rewrites the log with its oldest lines instead of its
\* newest (lines[:keep_lines])
rotate_log_file_if_needed_KeepsOldest(log, read_ok) ==
    IF ~log.exists \/ ~read_ok THEN log
    ELSE IF Len(log.content) >= max_log_lines /\ log_rotation_size < Len(log.content)
    THEN FileWith(SubSeq(log.content, 1, log_rotation_size)
                    \o rotation_marker(Len(log.content), log_rotation_size))
    ELSE log

\* rotate_log_file_if_needed(): the log after the call; an error while the
\* log is read is caught and leaves the log as it was
rotate_log_file_if_needed(log, read_ok) ==
    IF ~log.exists \/ ~read_ok THEN log
    ELSE IF Len(log.content) >= max_log_lines /\ log_rotation_size < Len(log.content)
    THEN FileWith(LastLines(log.content, log_rotation_size)
                    \o rotation_marker(Len(log.content),
                                       Len(LastLines(log.content, log_rotation_size))))
    ELSE log

\* the lines one save_to_log_file writes for a message of message_lines
\* lines: an empty line, the separator, the timestamp, the separator, the
\* message
LogEntry(message_lines, separator) ==
    << <<"", 0>>, separator, <<"timestamp", 0>>, separator >>
        \o [k \in 1..message_lines |-> <<"message", k>>]

\* save_to_log_file(message, separator): the log after the call; the
\* rotation comes first, and an error while the entry is appended is caught
save_to_log_file(log, message_lines, separator, read_ok, append_ok) ==
    IF append_ok
    THEN FileWith(rotate_log_file_if_needed(log, read_ok).content
                    \o LogEntry(message_lines, separator))
    ELSE rotate_log_file_if_needed(log, read_ok)

\* the separators of the calls: "="*60 by default, "-"*40 for a check
\* without internet
Separators == { <<"=", 60>>, <<"-", 40>> }

\* the logs the functions may find: none, an empty one, and logs around the
\* two thresholds, up to what an append to a log just below the maximum leaves
InitialLogs ==
    { NoFile }
        \cup { FileWith(OldLines(n)) :
                 n \in {0, log_rotation_size, max_log_lines - 10, max_log_lines - 1,
                        max_log_lines, max_log_lines + 4} }

LogInit ==
    /\ log_tail \in InitialLogs
    /\ CURRENT_VERSION = DefaultVersion
    /\ version_file = NoFile
    /\ last_internet_status = FALSE
    /\ pending_operations = FALSE
    /\ check_count = 0
    /\ failed_operations_count = 0
    /\ pc = "log"
    /\ i = 0
    /\ slept = 0
    /\ cycle = NoCycle
    /\ last_outcome = "None"
    /\ consecutive_failures = 0
    /\ push_failed_prev = FALSE

\* what every call leaves alone, and what it records
LogCall ==
    /\ check_count < MaxLogCalls
    /\ check_count' = check_count + 1
    /\ cycle' = [NoCycle EXCEPT !.ended = TRUE, !.start_file = log_tail]
    /\ last_outcome' = pc
    /\ UNCHANGED <<CURRENT_VERSION, version_file, last_internet_status,
                   pending_operations, failed_operations_count, i, slept,
                   consecutive_failures, push_failed_prev>>

\* rotate_log_file_if_needed() called on its own, as main does before it
\* writes the start entry; a log that does not exist is not read
RotateCall ==
    /\ LogCall
    /\ \E read_ok \in (IF log_tail.exists THEN BOOLEAN ELSE {TRUE}) :
         /\ log_tail' = rotate_log_file_if_needed(log_tail, read_ok)
         /\ pc' = IF read_ok THEN "rotate_returned" ELSE "rotate_failed"

\* save_to_log_file(message, separator)
SaveToLogCall ==
    /\ LogCall
    /\ \E message_lines \in 1..MaxMessageLines, separator \in Separators,
          read_ok \in (IF log_tail.exists THEN BOOLEAN ELSE {TRUE}),
          append_ok \in BOOLEAN :
         /\ log_tail' = save_to_log_file(log_tail, message_lines, separator,
                                         read_ok, append_ok)
         /\ pc' = IF ~append_ok THEN "append_failed"
                  ELSE IF read_ok THEN "appended" ELSE "appended_unrotated"

LogNext ==
    \/ RotateCall
    \/ SaveToLogCall

LogSpec == LogInit /\ [][LogNext]_vars


\* C19: after any append to the log by save_to_log_file, whatever the number
\* of lines of the message and whatever the log was before, the log has at
\* most max_log_lines lines.
C19_LogNeverExceedsMaximum ==
    pc = "appended" => Len(log_tail.content) <= max_log_lines

\* C20: whenever a rotation occurs (the log has at least max_log_lines lines
\* and more lines than log_rotation_size), the log right after it is the
\* last log_rotation_size lines of the old log followed by the marker block,
\* log_rotation_size plus the length of the marker block lines in all; inside
\* save_to_log_file the new entry comes after that.
C20_RotationKeepsNewestLines ==
    (pc \in {"rotate_returned", "appended"}
        /\ Len(cycle.start_file.content) >= max_log_lines
        /\ Len(cycle.start_file.content) > log_rotation_size)
        => /\ \A k \in 1..log_rotation_size :
                 log_tail.content[k] =
                     cycle.start_file.content[
                         Len(cycle.start_file.content) - log_rotation_size + k]
           /\ SubSeq(log_tail.content, log_rotation_size + 1,
                     log_rotation_size
                        + Len(rotation_marker(Len(cycle.start_file.content),
                                              log_rotation_size)))
                 = rotation_marker(Len(cycle.start_file.content), log_rotation_size)
           /\ pc = "rotate_returned"
                 => Len(log_tail.content) =
                        log_rotation_size
                           + Len(rotation_marker(Len(cycle.start_file.content),
                                                 log_rotation_size))

\* C20 (witness): rotate_log_file_if_needed has just rotated a log of more
\* than max_log_lines lines, which now has the kept lines and the nine lines
\* of the marker.
C20_RotatedLongLog ==
    /\ pc = "rotate_returned"
    /\ Len(cycle.start_file.content) > max_log_lines
    /\ Len(log_tail.content) = log_rotation_size + 9
    /\ log_tail.content[1] = <<"old", Len(cycle.start_file.content) - log_rotation_size + 1>>


(***************************************************************************)
(* The connectivity probe on its own: check_internet_connection called     *)
(* once, with every combination of what its four methods do.  Here cycle   *)
(* holds what the call was given and what it did: the outcome of each      *)
(* method were it invoked, the methods invoked in order, whether the call  *)
(* returned True, and whether an exception left it.  The other variables   *)
(* keep their initial values.                                              *)
(***************************************************************************)
\* the list `methods` of check_internet_connection
methods ==
    <<"check_via_requests", "check_via_ping_google",
      "check_via_ping_cloudflare", "check_via_nslookup">>

\* what invoking a method can do: return True, return False, run into its
\* timeout (which the method catches, returning False), or raise
MethodOutcomes == {"success", "failure", "timeout", "raises"}

\* `if method():` inside the try: only a method that returns True passes; one
\* that raises is skipped by `except Exception: continue`
MethodSucceeds(outcome) == outcome = "success"

RECURSIVE ProbeFrom_TriesAll(_, _, _, _)
\* a loop that goes on to the remaining methods after one has succeeded
ProbeFrom_TriesAll(outcomes, k, invoked, found) ==
    IF k > Len(methods) THEN [result |-> found, invoked |-> invoked, raised |-> FALSE]
    ELSE ProbeFrom_TriesAll(outcomes, k + 1, Append(invoked, methods[k]),
                            found \/ MethodSucceeds(outcomes[k]))

RECURSIVE ProbeFrom(_, _, _, _)
\* `for method in methods:` from the k-th method on, `invoked` being the
\* methods invoked so far: return True at the first method that succeeds,
\* False after the last one
ProbeFrom(outcomes, k, invoked, found) ==
    IF k > Len(methods) THEN [result |-> FALSE, invoked |-> invoked, raised |-> FALSE]
    ELSE IF MethodSucceeds(outcomes[k])
    THEN [result |-> TRUE, invoked |-> Append(invoked, methods[k]), raised |-> FALSE]
    ELSE ProbeFrom(outcomes, k + 1, Append(invoked, methods[k]), found)

\* check_internet_connection()
check_internet_connection(outcomes) == ProbeFrom(outcomes, 1, <<>>, FALSE)

ProbeInit ==
    /\ pc = "probe"
    /\ CURRENT_VERSION = DefaultVersion
    /\ version_file = NoFile
    /\ last_internet_status = FALSE
    /\ pending_operations = FALSE
    /\ check_count = 0
    /\ failed_operations_count = 0
    /\ i = 0
    /\ slept = 0
    /\ log_tail = <<>>
    /\ cycle = NoCycle
    /\ last_outcome = "None"
    /\ consecutive_failures = 0
    /\ push_failed_prev = FALSE

\* has_internet = check_internet_connection()
ProbeCall ==
    /\ pc = "probe"
    /\ \E outcomes \in [1..Len(methods) -> MethodOutcomes] :
         cycle' = [outcomes |-> outcomes,
                   result |-> check_internet_connection(outcomes).result,
                   invoked |-> check_internet_connection(outcomes).invoked,
                   raised |-> check_internet_connection(outcomes).raised]
    /\ pc' = "probed"
    /\ UNCHANGED <<CURRENT_VERSION, version_file, last_internet_status,
                   pending_operations, check_count, failed_operations_count,
                   i, slept, log_tail, last_outcome, consecutive_failures,
                   push_failed_prev>>

ProbeNext == ProbeCall

ProbeSpec == ProbeInit /\ [][ProbeNext]_vars

\* C21: the probe invokes its methods in their fixed order and stops at the
\* first that succeeds: it returns True exactly when some method succeeds
\* before any earlier one has, no method after the first succeeding one is
\* invoked, a method that raises or times out counts as failed, and when all
\* fail it returns False and no exception leaves it.
C21_ProbeShortCircuits ==
    pc = "probed" =>
        /\ cycle.result <=> \E k \in 1..4 : cycle.outcomes[k] = "success"
        /\ ~cycle.raised
        /\ \E n \in 1..4 :
              /\ cycle.invoked = SubSeq(methods, 1, n)
              /\ \A k \in 1..(n - 1) : cycle.outcomes[k] # "success"
              /\ n < 4 => cycle.outcomes[n] = "success"

\* C21 (witness): the first method raised, the second timed out and the
\* third succeeded, so that the fourth, which would have failed, was not
\* invoked.
C21_ThirdMethodAnswers ==
    /\ pc = "probed"
    /\ cycle.outcomes = <<"raises", "timeout", "success", "failure">>
    /\ cycle.result
    /\ cycle.invoked = <<"check_via_requests", "check_via_ping_google",
                         "check_via_ping_cloudflare">>


\* C22 (as stated): when the local HEAD was readable, push verification
\* yields true if the remote tip equals the local HEAD, false if the remote
\* tip is present but different, and true if the remote tip is absent or the
\* remote query failed.
C22_VerifiedByRemoteTip ==
    (cycle.ended /\ Invoked("verify") /\ cycle.local_ok)
        => (cycle.push_verified <=> cycle.remote \in {"equal", "absent", "error"})

\* C22 (amended): the same, when the local HEAD and the message of the latest
\* commit were both readable; a failed `git log --oneline -1` makes the
\* verification false whatever the remote tip is.
C22_VerifiedByRemoteTipWhenMessageRead ==
    (cycle.ended /\ Invoked("verify") /\ cycle.local_ok)
        => IF cycle.msg_ok
           THEN cycle.push_verified <=> cycle.remote \in {"equal", "absent", "error"}
           ELSE ~cycle.push_verified

\* C22 (witness): a push was verified against a remote that has no tip for
\* the branch, and the verification yielded true.
C22_AbsentRemoteVerifies ==
    /\ cycle.ended
    /\ Invoked("verify")
    /\ cycle.local_ok
    /\ cycle.msg_ok
    /\ cycle.remote = "absent"
    /\ cycle.push_verified


\* C23: a verification that yields false (the remote tip differs, or the
\* verification itself errors) after a push that exited zero never turns
\* the cycle into a failure: the outcome of the pipeline is Success and the
\* scheduler leaves failed_operations_count at 0.
C23_UnverifiedPushIsSuccess ==
    (cycle.ended /\ Invoked("verify") /\ cycle.push_rc = 0 /\ ~cycle.push_verified)
        => (cycle.outcome = "Success" /\ failed_operations_count = 0)

\* C23 (witness): after two failures in a row, a cycle pushed, found the
\* remote tip different from the local HEAD, and reset the count.
C23_MismatchResetsCount ==
    /\ cycle.ended
    /\ Invoked("verify")
    /\ cycle.local_ok
    /\ cycle.msg_ok
    /\ cycle.remote = "different"
    /\ ~cycle.push_verified
    /\ cycle.start_failed = 2
    /\ cycle.outcome = "Success"
    /\ failed_operations_count = 0


\* C24: within one run of the pipeline the external operations are invoked
\* only in the order add, commit, push, verify, each at most once, and once
\* add, commit or push has exited non-zero no later operation is invoked in
\* the same cycle.
C24_StagesInOrderAndAbsorbing ==
    cycle.invoked =>
        /\ \E n \in 0..4 : cycle.ops = SubSeq(<<"add", "commit", "push", "verify">>, 1, n)
        /\ (Invoked("add") /\ cycle.add_rc # 0) => Len(cycle.ops) = 1
        /\ (Invoked("commit") /\ cycle.commit_rc # 0) => Len(cycle.ops) = 2
        /\ (Invoked("push") /\ cycle.push_rc # 0) => Len(cycle.ops) = 3

\* C24 (witness): the commit of a cycle exited non-zero after add had
\* succeeded, and neither push nor verify was invoked.
C24_StoppedAtCommit ==
    /\ cycle.invoked
    /\ cycle.add_rc = 0
    /\ cycle.commit_rc # 0
    /\ cycle.ops = <<"add", "commit">>


\* C25: when the wait loop of a cycle that met no unexpected error has
\* ended, the time slept across its slices equals the interval determined
\* for that cycle (initial_interval or normal_interval).
C25_WaitSleepsTheInterval ==
    (pc = "check" /\ check_count > 0 /\ last_outcome # "Raised")
        => slept = get_interval_info(check_count)


\* C26: at the end of every iteration of the scheduler
\* 0 <= failed_operations_count < max_retries; and the bookkeeping keeps the
\* count in that range from every count in the range, reached or not, for
\* either result of the pipeline.
C26_CountBelowCeiling ==
    /\ failed_operations_count >= 0
    /\ failed_operations_count < max_retries
    /\ \A success \in BOOLEAN, pending \in BOOLEAN, failed \in 0..(max_retries - 1) :
          /\ RetryBookkeeping(success, failed, pending).failed_operations_count >= 0
          /\ RetryBookkeeping(success, failed, pending).failed_operations_count < max_retries

\* C26 (witness): a cycle that started one failure below the ceiling has
\* failed, and the count is back at 0, below the ceiling.
C26_FailureBelowCeiling ==
    /\ cycle.ended
    /\ cycle.outcome = "Failure"
    /\ cycle.start_failed = max_retries - 1
    /\ failed_operations_count < max_retries
    /\ last_outcome = "Failure"


\* C27: a cycle in which the probe returns False leaves
\* failed_operations_count, CURRENT_VERSION and the version file as they
\* were; and a pipeline failure in the cycle right after an unreachable one
\* counts on top of the failures counted before it.
C27_OfflineKeepsCountAndVersion ==
    /\ (cycle.ended /\ ~cycle.has_internet)
          => /\ failed_operations_count = cycle.start_failed
             /\ CURRENT_VERSION = cycle.start_version
             /\ version_file = cycle.start_file
    /\ (cycle.ended /\ cycle.outcome = "Failure" /\ ~cycle.start_last_internet)
          => failed_operations_count =
                 IF cycle.start_failed + 1 >= max_retries THEN 0
                 ELSE cycle.start_failed + 1

\* C27 (witness): a failure, then an unreachable cycle, then a second
\* failure, which brings the count to 2.
C27_FailuresAccumulateAcrossOffline ==
    /\ cycle.ended
    /\ cycle.outcome = "Failure"
    /\ ~cycle.start_last_internet
    /\ cycle.start_failed = 1
    /\ failed_operations_count = 2


\* C28: at the end of every cycle in which the version was advanced, whatever
\* became of the write of the version file, the version file holds the
\* CURRENT_VERSION that the commit message embeds.
C28_PersistedVersionIsCommitted ==
    (cycle.ended /\ Invoked("commit"))
        => /\ EmbedsVersion(cycle.commit_msg, CURRENT_VERSION)
           /\ version_file.exists
           /\ version_file.content = CURRENT_VERSION


\* the number a part of a well-formed version denotes
PartOf(v, k) == NatOfDigits(Split(v, ".")[k], 0)

\* a well-formed version whose minor and patch are at most 99
InRange(v) == WellFormed(v) /\ PartOf(v, 2) <= 99 /\ PartOf(v, 3) <= 99

\* (major, minor, patch) of v before that of w in lexicographic order
VersionLess(v, w) ==
    \/ PartOf(v, 1) < PartOf(w, 1)
    \/ PartOf(v, 1) = PartOf(w, 1) /\ PartOf(v, 2) < PartOf(w, 2)
    \/ PartOf(v, 1) = PartOf(w, 1) /\ PartOf(v, 2) = PartOf(w, 2)
          /\ PartOf(v, 3) < PartOf(w, 3)

\* C29: every advance of a well-formed version whose minor and patch are at
\* most 99 produces a well-formed version that is strictly greater in
\* (major, minor, patch) lexicographic order and whose minor and patch are
\* again within 0..99, so that the same holds of every later advance.
C29_AdvanceIsStrictlyGreater ==
    (pc = "incremented" /\ InRange(cycle.start_version))
        => /\ InRange(CURRENT_VERSION)
           /\ VersionLess(cycle.start_version, CURRENT_VERSION)
           /\ ~VersionLess(CURRENT_VERSION, cycle.start_version)

\* C29 (witness): the third advance in a row has taken 0.99.99, reached from
\* 0.99.98, to 1.0.0: minor and patch fell back to 0 and the version grew.
C29_GrowsThroughRollover ==
    /\ pc = "incremented"
    /\ last_outcome = "incremented"
    /\ InRange(cycle.start_version)
    /\ cycle.start_version = <<"0", ".", "9", "9", ".", "9", "9">>
    /\ CURRENT_VERSION = <<"1", ".", "0", ".", "0">>


(***************************************************************************)
(* The change summariser on its own: get_django_changes called once on a   *)
(* status output of up to MaxStatusLines lines.  Here cycle holds the      *)
(* lines git printed, each as <<status code, path>>, and the kind of       *)
(* message and the three lists the call built from them.  The other        *)
(* variables keep their initial values.                                    *)
(***************************************************************************)
MaxStatusLines == 2

\* two-character status codes of `git status --porcelain`: modified in the
\* working tree, modified in the index, added, untracked, deleted in the
\* working tree, modified in both
StatusCodes ==
    { <<" ", "M">>, <<"M", " ">>, <<"A", " ">>, <<"?", "?">>, <<" ", "D">>,
      <<"M", "M">> }

StatusPaths == { <<"a", "b">>, <<"c">> }

\* status outputs of n lines, each a code and a path
StatusLines(n) == [1..n -> StatusCodes \X StatusPaths]

\* the text of a line: the code, a space and the path
LineText(line) == line[1] \o <<" ">> \o line[2]

\* the text git prints for the lines, each ended by a line feed
RECURSIVE StatusText(_)
StatusText(lines) ==
    IF lines = <<>> THEN <<>>
    ELSE LineText(Head(lines)) \o <<"\n">> \o StatusText(Tail(lines))

SummaryInit ==
    /\ pc = "summary"
    /\ CURRENT_VERSION = DefaultVersion
    /\ version_file = NoFile
    /\ last_internet_status = FALSE
    /\ pending_operations = FALSE
    /\ check_count = 0
    /\ failed_operations_count = 0
    /\ i = 0
    /\ slept = 0
    /\ log_tail = <<>>
    /\ cycle = NoCycle
    /\ last_outcome = "None"
    /\ consecutive_failures = 0
    /\ push_failed_prev = FALSE

\* changes_message = get_django_changes()
SummaryCall ==
    /\ pc = "summary"
    /\ \E n \in 0..MaxStatusLines, status_raises \in BOOLEAN :
         \E lines \in StatusLines(n) :
            /\ status_raises => n = 0
            /\ cycle' = [lines |-> lines,
                         kind |-> get_django_changes(StatusText(lines), status_raises).kind,
                         added |-> get_django_changes(StatusText(lines), status_raises).added,
                         modified |-> get_django_changes(StatusText(lines), status_raises).modified,
                         deleted |-> get_django_changes(StatusText(lines), status_raises).deleted]
            /\ pc' = IF status_raises THEN "summary_error" ELSE "summarised"
    /\ UNCHANGED <<CURRENT_VERSION, version_file, last_internet_status,
                   pending_operations, check_count, failed_operations_count,
                   i, slept, log_tail, last_outcome, consecutive_failures,
                   push_failed_prev>>

SummaryNext == SummaryCall

SummarySpec == SummaryInit /\ [][SummaryNext]_vars

\* the paths, in order, of the lines whose code, blanks left aside, is in codes
RECURSIVE PathsWithCode(_, _)
PathsWithCode(lines, codes) ==
    IF lines = <<>> THEN <<>>
    ELSE (IF Strip(Head(lines)[1]) \in codes THEN <<Head(lines)[2]>> ELSE <<>>)
             \o PathsWithCode(Tail(lines), codes)

\* C30: every line of the status output, the first one and those whose code
\* begins with a space included, is classified by its status code (A or ??
\* as added, M as modified, D as deleted, anything else in no category) and
\* the entry recorded for it is exactly its full path.
C30_EntriesAreFullPaths ==
    pc = "summarised" =>
        /\ cycle.added = PathsWithCode(cycle.lines, { <<"A">>, <<"?", "?">> })
        /\ cycle.modified = PathsWithCode(cycle.lines, { <<"M">> })
        /\ cycle.deleted = PathsWithCode(cycle.lines, { <<"D">> })

=============================================================================
